---- MODULE Spec2Model ----
(***************************************************************************)
(* Model of the two playlist scripts of quran-playlist-automation:         *)
(*   run_playlist.py     - adds up to VIDEOS_PER_RUN videos per run        *)
(*   add_to_playlist.py  - adds at most one video per run                  *)
(* A string is modelled as a sequence of one-character strings, a title    *)
(* as a sequence of whitespace-separated lower/upper-case tokens.          *)
(***************************************************************************)
EXTENDS Integers, Sequences, FiniteSets, TLC

(***************************************************************************)
(* Program constants                                                       *)
(***************************************************************************)
VIDEOS_PER_RUN == 10
MIN_DURATION_MINUTES == 15
MAX_SEARCH_RESULTS == 25
MAX_CANDIDATES_TO_CHECK_run == 60
MAX_CANDIDATES_TO_CHECK_add == 30
MAX_TOTAL_ATTEMPTS == 40

(***************************************************************************)
(* Bounds of the model                                                     *)
(***************************************************************************)
\* number of acceptable, not yet present videos in the rich search index
NumRich == 10
\* longest digit string of one duration component drawn for the decoder
MaxDigits == 2
\* longest arbitrary string drawn for the decoder
MaxJunkLen == 3

(***************************************************************************)
(* Python values                                                           *)
(***************************************************************************)
\* Optional[int]: None, or an int
None == [isNone |-> TRUE, val |-> 0]
Some(n) == [isNone |-> FALSE, val |-> n]

Digits == {"0", "1", "2", "3", "4", "5", "6", "7", "8", "9"}

DigitValue(c) == CASE c = "0" -> 0 [] c = "1" -> 1 [] c = "2" -> 2 [] c = "3" -> 3
                   [] c = "4" -> 4 [] c = "5" -> 5 [] c = "6" -> 6 [] c = "7" -> 7
                   [] c = "8" -> 8 [] c = "9" -> 9

\* int(group or 0): the value of a digit string, 0 for an unmatched group
RECURSIVE int(_)
int(digits) == IF digits = <<>> THEN 0
               ELSE 10 * int(SubSeq(digits, 1, Len(digits) - 1))
                    + DigitValue(digits[Len(digits)])

(***************************************************************************)
(* The duration pattern PT(?:(\d+)H)?(?:(\d+)M)?(?:(\d+)S)?                *)
(***************************************************************************)
\* \d+ at position i: the length of the longest run of digits starting there
DigitRun(str, i) ==
    CHOOSE n \in 0..Len(str) :
        /\ \A k \in i..(i + n - 1) : k <= Len(str) /\ str[k] \in Digits
        /\ i + n > Len(str) \/ str[i + n] \notin Digits

\* (?:(\d+)X)? at position i: the group's text and the position after it
OptionalGroup(str, i, unit) ==
    LET n == DigitRun(str, i)
    IN  IF n > 0 /\ i + n <= Len(str) /\ str[i + n] = unit
        THEN [next |-> i + n + 1, text |-> SubSeq(str, i, i + n - 1)]
        ELSE [next |-> i, text |-> <<>>]

\* the pattern matched at the start of str: where the match ends and its groups
DurationPattern(str) ==
    IF Len(str) >= 2 /\ str[1] = "P" /\ str[2] = "T"
    THEN LET h == OptionalGroup(str, 3, "H")
             m == OptionalGroup(str, h.next, "M")
             s == OptionalGroup(str, m.next, "S")
         IN  [ok |-> TRUE, end |-> s.next, g1 |-> h.text, g2 |-> m.text, g3 |-> s.text]
    ELSE [ok |-> FALSE, end |-> 0, g1 |-> <<>>, g2 |-> <<>>, g3 |-> <<>>]

\* re.match(r"^...$", s): "$" matches at the end and before a final newline
re_match_dollar(str) ==
    LET m == DurationPattern(str)
    IN  [m EXCEPT !.ok = m.ok /\ (m.end = Len(str) + 1
                                  \/ (m.end = Len(str) /\ str[Len(str)] = "\n"))]

\* re.fullmatch(r"...", s): the match must end at the end of the string
re_fullmatch(str) ==
    LET m == DurationPattern(str)
    IN  [m EXCEPT !.ok = m.ok /\ m.end = Len(str) + 1]

\* add_to_playlist.iso8601_to_seconds
iso8601_to_seconds(duration) ==
    LET m == re_match_dollar(duration)
    IN  IF ~m.ok THEN 0
        ELSE LET h  == int(m.g1)
                 mm == int(m.g2)
                 s  == int(m.g3)
             IN  h * 3600 + mm * 60 + s

\* A faulty variant of duration_to_minutes: any started minute counts as a whole one.
duration_to_minutes_ceiling(dur) ==
    LET m == re_fullmatch(dur)
    IN  IF ~m.ok THEN None
        ELSE LET hours == int(m.g1)
                 mins  == int(m.g2)
                 secs  == int(m.g3)
                 total_minutes == hours * 60 + mins + (IF secs > 0 THEN 1 ELSE 0)
             IN  Some(total_minutes)

\* run_playlist.video_duration_minutes, lines 146-154: the decoding of the encoding
duration_to_minutes(dur) ==
    LET m == re_fullmatch(dur)
    IN  IF ~m.ok THEN None
        ELSE LET hours == int(m.g1)
                 mins  == int(m.g2)
                 secs  == int(m.g3)
                 total_minutes == hours * 60 + mins + (IF secs >= 30 THEN 1 ELSE 0)
             IN  Some(total_minutes)

(***************************************************************************)
(* Titles.  A title is a sequence of tokens: words (maximal runs of word   *)
(* characters) and punctuation marks; the whitespace between tokens is not *)
(* recorded.  \bW\b matches exactly when W is one of the word tokens.      *)
(***************************************************************************)
\* str.lower() / re.IGNORECASE on one token
Lower(tok) ==
    CASE tok = "Mishary" -> "mishary" [] tok = "Rashid" -> "rashid"
      [] tok = "Alafasy" -> "alafasy" [] tok = "Surah" -> "surah"
      [] tok = "Yasin" -> "yasin"     [] tok = "Official" -> "official"
      [] tok = "Al" -> "al"           [] tok = "Mulk" -> "mulk"
      [] tok = "Saad" -> "saad"       [] tok = "Ghamdi" -> "ghamdi"
      [] tok = "Sudais" -> "sudais"   [] tok = "Maher" -> "maher"
      [] tok = "Muaiqly" -> "muaiqly" [] tok = "Kahf" -> "kahf"
      [] tok = "Edited" -> "edited"   [] tok = "SHORTS" -> "shorts"
      [] tok = "Beautiful" -> "beautiful" [] tok = "Quran" -> "quran"
      [] tok = "Recitation" -> "recitation" [] tok = "Daily" -> "daily"
      [] tok = "Husary" -> "husary"   [] tok = "Juz" -> "juz"
      [] tok = "Amma" -> "amma"       [] tok = "Part" -> "part"
      [] tok = "Baqarah" -> "baqarah" [] tok = "Ali" -> "ali"
      [] tok = "Jaber" -> "jaber"     [] tok = "Idris" -> "idris"
      [] tok = "Abkar" -> "abkar"
      [] OTHER -> tok

LowerAll(toks) == [i \in 1..Len(toks) |-> Lower(toks[i])]

\* pat occurs in toks as a run of adjacent tokens
Contains(toks, pat) ==
    \E i \in 1..(Len(toks) - Len(pat) + 1) : SubSeq(toks, i, i + Len(pat) - 1) = pat

\* \d+ as a whole token
NumberTokens == {"1", "2", "3", "11", "111"}

\* run_playlist.BAD_TITLE_PATTERNS: each pattern as the token runs it matches
BAD_TITLE_PATTERNS_run ==
    { {<<"short">>, <<"shorts">>},            \* \bshorts?\b
      {<<"#", "short">>, <<"#", "shorts">>},  \* #shorts?\b
      {<<"tiktok">>},                         \* \btiktok\b
      {<<"reel">>, <<"reels">>},              \* \breels?\b
      {<<"edited">>},                         \* \bedited\b
      {<<"speedup">>, <<"speed", "up">>},     \* \bspeed\s*up\b
      {<<"slowed">>},                         \* \bslowed\b
      {<<"meme">>},                           \* \bmeme\b
      {<<"clip">>},                           \* \bclip\b
      {<<"status">>},                         \* \bstatus\b
      {<<"111">>, <<"1", "-", "11">>} }       \* \b1-?11\b

\* add_to_playlist.BAD_TITLE_PATTERNS: the same, and \bpart\s*\d+\b
BAD_TITLE_PATTERNS_add ==
    BAD_TITLE_PATTERNS_run
      \cup { {<<"part", n>> : n \in NumberTokens}
               \cup {<<"part1">>, <<"part2">>, <<"part3">>} }

\* re.search(p, title, flags=re.IGNORECASE)
re_search(p, title) == \E run \in p : Contains(LowerAll(title), run)

\* run_playlist.is_bad_title
is_bad_title(title) == \E p \in BAD_TITLE_PATTERNS_run : re_search(p, title)

\* add_to_playlist.title_is_bad
title_is_bad(title) ==
    LET t == LowerAll(title)
    IN  \E pat \in BAD_TITLE_PATTERNS_add : re_search(pat, t)

\* add_to_playlist.RECITERS, each name lower-cased and split into tokens
RECITERS_add ==
    { <<"abdul", "rahman", "al", "-", "sudais">>, <<"abdurrahman", "al", "sudais">>,
      <<"saud", "al", "-", "shuraim">>, <<"saud", "al", "shuraim">>,
      <<"maher", "al", "muaiqly">>, <<"maher", "al", "-", "muaiqly">>,
      <<"yasser", "al", "-", "dosari">>, <<"yasser", "al", "dosari">>,
      <<"abdullah", "al", "-", "juhany">>, <<"abdullah", "al", "juhany">>,
      <<"saleh", "al", "talib">>, <<"saleh", "al", "-", "talib">>,
      <<"bandar", "balilah">>, <<"abdullah", "basfar">>, <<"nasser", "al", "qatami">>,
      <<"mishary", "rashid", "alafasy">>, <<"mishary", "alafasy">>,
      <<"saad", "al", "ghamdi">>, <<"saad", "al", "-", "ghamdi">>,
      <<"abu", "bakr", "al", "-", "shatri">>, <<"abu", "bakr", "al", "shatri">>,
      <<"hani", "ar", "-", "rifai">>, <<"hani", "al", "rifai">>,
      <<"muhammad", "ayyub">>, <<"mohammed", "ayyub">>,
      <<"ali", "jaber">>, <<"sheikh", "ali", "jaber">>, <<"idris", "abkar">>,
      <<"minshawi">>, <<"al", "-", "minshawi">>,
      <<"mahmoud", "khalil", "al", "-", "husary">>, <<"al", "-", "husary">>,
      <<"abdul", "basit">>, <<"abdulbasit">>, <<"abdul", "basit", "abdus", "samad">> }

\* the partials of add_to_playlist.reciter_matches
partials ==
    { <<"sudais">>, <<"shuraim">>, <<"muaiqly">>, <<"dosari">>, <<"juhany">>, <<"talib">>,
      <<"alafasy">>, <<"afasy">>, <<"ghamdi">>, <<"shatri">>, <<"rifai">>, <<"ayyub">>,
      <<"ali", "jaber">>, <<"idris", "abkar">>, <<"minshawi">>, <<"husary">>,
      <<"abdul", "basit">>, <<"qatami">>, <<"basfar">>, <<"balilah">> }

\* add_to_playlist.reciter_matches: hay = f"{title} {channel_title}".lower()
reciter_matches(title, channel_title) ==
    LET hay == LowerAll(title \o channel_title)
    IN  \/ \E r \in RECITERS_add : Contains(hay, r)
        \/ \E p \in partials : Contains(hay, p)

(***************************************************************************)
(* The remote service: videos, search index, insertion responses.          *)
(* Videos 1..13 have mixed attributes, videos 101.. are all acceptable.    *)
(***************************************************************************)
RichVideos == 101..(100 + NumRich)

MixedVideos == 1..13

Videos == MixedVideos \cup RichVideos

PT30M    == <<"P", "T", "3", "0", "M">>
PT15M    == <<"P", "T", "1", "5", "M">>
PT45M    == <<"P", "T", "4", "5", "M">>
PT20M    == <<"P", "T", "2", "0", "M">>
PT2H     == <<"P", "T", "2", "H">>
PT14M30S == <<"P", "T", "1", "4", "M", "3", "0", "S">>
PT14M29S == <<"P", "T", "1", "4", "M", "2", "9", "S">>
PT24M47S == <<"P", "T", "2", "4", "M", "4", "7", "S">>
PT1H2M3S == <<"P", "T", "1", "H", "2", "M", "3", "S">>
P1D      == <<"P", "1", "D">>

\* a videos().list item: snippet, contentDetails and status of one video;
\* listed: videos().list returns the item; gone: playlistItems().insert answers videoNotFound
Item(title, channel, duration, privacy) ==
    [title |-> title, channelTitle |-> channel, hasDuration |-> TRUE,
     duration |-> duration, privacyStatus |-> privacy, listed |-> TRUE, gone |-> FALSE]

Video(v) ==
    CASE v = 1  -> Item(<<"Mishary", "Rashid", "Alafasy", "Surah", "Yasin">>,
                        <<"Alafasy", "Official">>, PT30M, "public")
      [] v = 2  -> Item(<<"Surah", "Al", "-", "Mulk">>,
                        <<"Saad", "Al", "Ghamdi">>, PT15M, "unlisted")
      [] v = 3  -> Item(<<"Sudais", "Surah", "Yasin">>,
                        <<"Quran", "Daily">>, PT45M, "private")
      [] v = 4  -> Item(<<"Maher", "Al", "Muaiqly", "Surah", "Al", "-", "Kahf">>,
                        <<"Quran", "Daily">>, PT14M30S, "public")
      [] v = 5  -> Item(<<"Surah", "Al", "-", "Kahf", "(", "Edited", ")", "#", "SHORTS">>,
                        <<"Alafasy", "Official">>, PT30M, "public")
      [] v = 6  -> Item(<<"Beautiful", "Quran", "Recitation">>,
                        <<"Quran", "Daily">>, PT20M, "public")
      [] v = 7  -> Item(<<"Sudais", "Surah", "Al", "-", "Mulk">>,
                        <<"Quran", "Daily">>, P1D, "public")
      [] v = 8  -> [Item(<<"Idris", "Abkar", "Surah", "Yasin">>,
                         <<"Quran", "Daily">>, PT30M, "public") EXCEPT !.listed = FALSE]
      [] v = 9  -> [Item(<<"Surah", "Yasin", "Ali">>,
                         <<"Jaber", "Official">>, PT24M47S, "public") EXCEPT !.gone = TRUE]
      [] v = 10 -> Item(<<"Mishary", "Alafasy", "Juz", "Amma">>,
                        <<"Alafasy", "Official">>, PT14M29S, "public")
      [] v = 11 -> Item(<<"Husary", "Juz", "Amma", "Part", "2">>,
                        <<"Quran", "Daily">>, PT1H2M3S, "public")
      [] v = 12 -> [Item(<<"Saad", "Al", "Ghamdi", "Surah", "Yasin">>,
                         <<"Quran", "Daily">>, <<>>, "public") EXCEPT !.hasDuration = FALSE]
      [] v = 13 -> Item(<<>>, <<"Alafasy", "Official">>, PT30M, "public")
      [] OTHER  -> Item(<<"Sudais", "Surah", "Al", "-", "Baqarah">>,
                        <<"Quran", "Daily">>, PT2H, "public")

\* the permutations of a list: what random.shuffle can leave
Shuffles(list) ==
    LET n == Len(list)
    IN  { [i \in 1..n |-> list[f[i]]] :
            f \in {g \in [1..n -> 1..n] : \A i, j \in 1..n : g[i] = g[j] => i = j} }

\* maxResults: the service returns at most that many items
Take(list, n) == SubSeq(list, 1, IF Len(list) < n THEN Len(list) ELSE n)

\* The search index of one run: the result list of each query the script can draw.
\* The same video is returned by several queries.
MixedIndex == { <<1, 5, 3>>, <<4, 6, 2>>, <<7, 8, 9>>, <<2, 1, 11>>, <<10, 12, 13>>, <<>> }

BarrenIndex == { <<5, 3, 10>>, <<7, 8>>, <<12, 13>>, <<>> }

RichIndex == { <<v>> : v \in RichVideos } \cup { <<101, 102>> }

\* HttpError messages of playlistItems().insert, as the set of marker texts str(e) contains
HttpErrorTexts == { {"videoNotFound"}, {"Video not found"}, {"quotaExceeded"},
                {"Quota exceeded"}, {"forbidden"} }

\* a response of playlistItems().insert().execute(): a normal return, or an HttpError e
Returned == [raised |-> FALSE, msg |-> {}]

HttpError(text) == [raised |-> TRUE, msg |-> text]

HttpErrors == {HttpError(t) : t \in HttpErrorTexts}

NotFoundErrors == {HttpError({"videoNotFound"}), HttpError({"Video not found"})}

\* The environments a run is checked in: the search index, the failures the
\* insertion call can report besides videoNotFound, and the pre-run playlists.
Worlds ==
    { [name |-> "mixed",  index |-> MixedIndex,  faults |-> HttpErrors \ NotFoundErrors,
       playlists |-> {{}, {1}, {1, 4}}],
      [name |-> "barren", index |-> BarrenIndex, faults |-> HttpErrors \ NotFoundErrors,
       playlists |-> {{}, {5}}],
      [name |-> "rich",   index |-> RichIndex,   faults |-> {},
       playlists |-> {{}}] }

WorldNames == {w.name : w \in Worlds}

World == [name \in WorldNames |-> CHOOSE w \in Worlds : w.name = name] @@ <<>>

\* what playlistItems().insert answers for video v in world w
InsertResponses(w, v) ==
    IF Video(v).gone THEN NotFoundErrors \cup World[w].faults
    ELSE {Returned} \cup World[w].faults

(***************************************************************************)
(* State                                                                   *)
(***************************************************************************)
VARIABLES
    script,           \* which script runs: "run_playlist", "add_to_playlist", "decoder"
    world,            \* the environment of the run, one of WorldNames
    pc,               \* position of main: "start", "scan", "loop", "done", "added", "raised"
    existing,         \* existing / existing_ids: the in-memory membership set
    picked_this_run,  \* run_playlist.main
    added,            \* run_playlist.main
    attempts,         \* run_playlist.main
    candidates,       \* add_to_playlist.main: the shuffled candidates
    pos,              \* add_to_playlist.main: position of the for loop in candidates
    checked,          \* add_to_playlist.main
    pre,              \* history: the membership set fetched at run start
    passed,           \* history: the identifiers passed to the insertion call
    ncalls,           \* history: number of insertion calls made
    nok,              \* history: number of insertion calls that returned normally
    inserted,         \* history: the identifiers whose insertion call returned normally
    nsearch,          \* history: number of search calls made
    err,              \* history: the response of the latest insertion call
    dec_duration,     \* decoder: the encoding given
    dec_seconds,      \* decoder: result of iso8601_to_seconds, None before the call
    dec_minutes,      \* decoder: result of the decoding of video_duration_minutes
    dpc               \* decoder: "input", "seconds", "done"

vars == <<script, world, pc, existing, picked_this_run, added, attempts, candidates,
          pos, checked, pre, passed, ncalls, nok, inserted, nsearch, err, dec_duration,
          dec_seconds, dec_minutes, dpc>>

runVars == <<script, world, pc, existing, picked_this_run, added, attempts, candidates,
             pos, checked, pre, passed, ncalls, nok, inserted, nsearch, err>>

decVars == <<dec_duration, dec_seconds, dec_minutes, dpc>>

(***************************************************************************)
(* run_playlist.py                                                         *)
(***************************************************************************)
\* run_playlist.video_duration_minutes(yt, video_id)
video_duration_minutes(video_id) ==
    LET item == Video(video_id)
    IN  IF ~item.listed THEN None
        ELSE IF item.privacyStatus = "private" THEN None
        ELSE duration_to_minutes(IF item.hasDuration THEN item.duration ELSE <<>>)

HasTitle(vid) == Video(vid).title # <<>>

\* the answers of video_duration_minutes and is_bad_title for each video, computed once
MinutesOf == [v \in Videos |-> video_duration_minutes(v)] @@ <<>>

BadTitleOf == [v \in Videos |-> is_bad_title(Video(v).title)] @@ <<>>

\* run_playlist.search_candidates: the (vid, title) pairs of the result, as the vids
search_candidates_run(result) == SelectSeq(Take(result, MAX_SEARCH_RESULTS), HasTitle)

\* A faulty variant of is_known: the playlist's membership is not consulted.
is_known_this_run_only(vid, existingSet, picked) == vid \in picked

\* line 206 of pick_one_new_video
is_known(vid, existingSet, picked) == vid \in existingSet \/ vid \in picked

\* line 214 of pick_one_new_video
too_short(mins) == mins < MIN_DURATION_MINUTES

NoPick == [found |-> FALSE, video_id |-> 0, mins |-> 0]

\* lines 206-215 of pick_one_new_video: candidate vid is skipped (one of the four `continue`s)
is_skipped(vid, existingSet, picked) ==
    \/ is_known(vid, existingSet, picked)
    \/ BadTitleOf[vid]
    \/ MinutesOf[vid].isNone
    \/ too_short(MinutesOf[vid].val)

\* the for loop of pick_one_new_video from position i on, `n` candidates checked so far
RECURSIVE pick_from(_, _, _, _, _)
pick_from(cands, i, n, existingSet, picked) ==
    IF i > Len(cands) \/ n >= MAX_CANDIDATES_TO_CHECK_run THEN NoPick
    ELSE IF is_skipped(cands[i], existingSet, picked)
         THEN pick_from(cands, i + 1, n + 1, existingSet, picked)
         ELSE [found |-> TRUE, video_id |-> cands[i], mins |-> MinutesOf[cands[i]].val]

\* run_playlist.pick_one_new_video, given the shuffled candidates of its query
pick_one_new_video(cands, existingSet, picked) == pick_from(cands, 1, 0, existingSet, picked)

\* A faulty variant of loop_condition: the comparison of the attempts is reversed.
loop_condition_reversed(addedNow, attemptsNow) ==
    addedNow < VIDEOS_PER_RUN /\ attemptsNow > MAX_TOTAL_ATTEMPTS

\* A faulty variant of loop_condition: the loop goes on when the quota is reached.
loop_condition_past_quota(addedNow, attemptsNow) ==
    addedNow <= VIDEOS_PER_RUN /\ attemptsNow < MAX_TOTAL_ATTEMPTS

\* the condition of the while loop of main
loop_condition(addedNow, attemptsNow) ==
    addedNow < VIDEOS_PER_RUN /\ attemptsNow < MAX_TOTAL_ATTEMPTS

\* lines 255-257: the updates after a successful insertion
added_after_insert(addedNow) == addedNow + 1

picked_after_insert(picked, video_id) == picked \cup {video_id}

\* A faulty variant of existing_after_insert: line 257 is left out.
existing_after_insert_forgotten(existingSet, video_id) == existingSet

existing_after_insert(existingSet, video_id) == existingSet \cup {video_id}

\* lines 261 and 265: the tests on msg = str(e)
is_not_found(msg) == "videoNotFound" \in msg \/ "Video not found" \in msg

is_quota(msg) == "quotaExceeded" \in msg \/ "Quota exceeded" \in msg

\* A faulty variant of except_clause: every other error is swallowed like a missing video.
except_clause_swallowing(e) ==
    IF is_not_found(e.msg) THEN "skip"
    ELSE IF is_quota(e.msg) THEN "stop"
    ELSE "skip"

\* what the except clause of main does with HttpError e: "skip", "stop" or "raise"
except_clause(e) ==
    IF is_not_found(e.msg) THEN "skip"
    ELSE IF is_quota(e.msg) THEN "stop"
    ELSE "raise"

\* the shuffled candidates pick_one_new_video can get in world w
RP_Candidates(w) == UNION {Shuffles(search_candidates_run(result)) : result \in w.index}

RP_CandidatesOf == [name \in WorldNames |-> RP_Candidates(World[name])] @@ <<>>

RP_InLoop == script = "run_playlist" /\ pc = "loop" /\ loop_condition(added, attempts)

\* line 242 and the search of pick_one_new_video
RP_Attempt ==
    /\ attempts' = attempts + 1
    /\ nsearch' = nsearch + 1
    /\ UNCHANGED <<script, world, pre, candidates, pos, checked>>
    /\ UNCHANGED decVars

\* line 253: add_to_playlist(yt, playlist_id, video_id) answers r
RP_Insert(video_id, r) ==
    /\ passed' = passed \cup {video_id}
    /\ ncalls' = ncalls + 1
    /\ nok' = IF r.raised THEN nok ELSE nok + 1
    /\ inserted' = IF r.raised THEN inserted ELSE inserted \cup {video_id}
    /\ err' = r

\* pick_one_new_video returned None: continue
RP_NoPick ==
    /\ RP_InLoop
    /\ \E cands \in RP_CandidatesOf[world] :
         ~pick_one_new_video(cands, existing, picked_this_run).found
    /\ RP_Attempt
    /\ UNCHANGED <<pc, existing, picked_this_run, added, passed, ncalls, nok, inserted, err>>

\* the insertion succeeded
RP_Added ==
    /\ RP_InLoop
    /\ \E cands \in RP_CandidatesOf[world] :
         \E pick \in {pick_one_new_video(cands, existing, picked_this_run)} :
             /\ pick.found
             /\ \E r \in InsertResponses(world, pick.video_id) :
                  /\ ~r.raised
                  /\ RP_Insert(pick.video_id, r)
                  /\ added' = added_after_insert(added)
                  /\ picked_this_run' = picked_after_insert(picked_this_run, pick.video_id)
                  /\ existing' = existing_after_insert(existing, pick.video_id)
    /\ RP_Attempt
    /\ UNCHANGED pc

\* HttpError videoNotFound: skip the item
RP_SkipNotFound ==
    /\ RP_InLoop
    /\ \E cands \in RP_CandidatesOf[world] :
         \E pick \in {pick_one_new_video(cands, existing, picked_this_run)} :
             /\ pick.found
             /\ \E r \in InsertResponses(world, pick.video_id) :
                  /\ r.raised /\ except_clause(r) = "skip"
                  /\ RP_Insert(pick.video_id, r)
                  /\ picked_this_run' = picked_after_insert(picked_this_run, pick.video_id)
    /\ RP_Attempt
    /\ UNCHANGED <<pc, existing, added>>

\* HttpError quotaExceeded: break
RP_QuotaStop ==
    /\ RP_InLoop
    /\ \E cands \in RP_CandidatesOf[world] :
         \E pick \in {pick_one_new_video(cands, existing, picked_this_run)} :
             /\ pick.found
             /\ \E r \in InsertResponses(world, pick.video_id) :
                  /\ r.raised /\ except_clause(r) = "stop"
                  /\ RP_Insert(pick.video_id, r)
    /\ RP_Attempt
    /\ pc' = "done"
    /\ UNCHANGED <<existing, picked_this_run, added>>

\* any other HttpError: raise
RP_Raise ==
    /\ RP_InLoop
    /\ \E cands \in RP_CandidatesOf[world] :
         \E pick \in {pick_one_new_video(cands, existing, picked_this_run)} :
             /\ pick.found
             /\ \E r \in InsertResponses(world, pick.video_id) :
                  /\ r.raised /\ except_clause(r) = "raise"
                  /\ RP_Insert(pick.video_id, r)
    /\ RP_Attempt
    /\ pc' = "raised"
    /\ UNCHANGED <<existing, picked_this_run, added>>

\* the while condition is false: print the summary and return
RP_Exit ==
    /\ script = "run_playlist" /\ pc = "loop"
    /\ ~loop_condition(added, attempts)
    /\ pc' = "done"
    /\ UNCHANGED <<script, world, existing, picked_this_run, added, attempts, candidates,
                   pos, checked, pre, passed, ncalls, nok, inserted, nsearch, err>>
    /\ UNCHANGED decVars

(***************************************************************************)
(* add_to_playlist.py                                                      *)
(***************************************************************************)
\* add_to_playlist.search_candidates: the videoIds of the result
search_candidates_add(result) == Take(result, MAX_SEARCH_RESULTS)

\* add_to_playlist.get_video_details: the item, or {} (has_item false)
get_video_details(video_id) == [has_item |-> Video(video_id).listed, item |-> Video(video_id)]

\* line 232 of is_good_video
below_minimum(secs) == secs < MIN_DURATION_MINUTES * 60

\* add_to_playlist.is_good_video
is_good_video(video) ==
    LET title == video.title
        channel_title == video.channelTitle
        dur == IF video.hasDuration THEN video.duration ELSE <<"P", "T", "0", "S">>
    IN  IF title = <<>> THEN FALSE
        ELSE IF title_is_bad(title) THEN FALSE
        ELSE IF ~reciter_matches(title, channel_title) THEN FALSE
        ELSE IF below_minimum(iso8601_to_seconds(dur)) THEN FALSE
        ELSE TRUE

\* the outcome of lines 261-265 for each video, computed once: TRUE when it is added
GoodOf == [v \in Videos |->
             LET video == get_video_details(v)
             IN  video.has_item /\ is_good_video(video.item)] @@ <<>>

\* the shuffled candidates main can get in world w
AP_Candidates(w) == UNION {Shuffles(search_candidates_add(result)) : result \in w.index}

AP_CandidatesOf == [name \in WorldNames |-> AP_Candidates(World[name])] @@ <<>>

\* line 254 of main
is_existing(vid, existing_ids) == vid \in existing_ids

AP_Idle == UNCHANGED <<script, world, existing, picked_this_run, added, attempts, pre>>

\* lines 249-252: search, shuffle, checked = 0
AP_Search ==
    /\ script = "add_to_playlist" /\ pc = "start"
    /\ candidates' \in AP_CandidatesOf[world]
    /\ pos' = 1
    /\ checked' = 0
    /\ nsearch' = nsearch + 1
    /\ pc' = "scan"
    /\ UNCHANGED <<passed, ncalls, nok, inserted, err>>
    /\ AP_Idle
    /\ UNCHANGED decVars

AP_AtCandidate == script = "add_to_playlist" /\ pc = "scan" /\ pos <= Len(candidates)

\* lines 254-255: the candidate is in the playlist already
AP_SkipExisting ==
    /\ AP_AtCandidate
    /\ is_existing(candidates[pos], existing)
    /\ pos' = pos + 1
    /\ UNCHANGED <<pc, candidates, checked, passed, ncalls, nok, inserted, nsearch, err>>
    /\ AP_Idle
    /\ UNCHANGED decVars

\* lines 257-265: the candidate is examined and is not added
AP_Reject ==
    /\ AP_AtCandidate
    /\ ~is_existing(candidates[pos], existing)
    /\ checked + 1 <= MAX_CANDIDATES_TO_CHECK_add
    /\ ~GoodOf[candidates[pos]]
    /\ checked' = checked + 1
    /\ pos' = pos + 1
    /\ UNCHANGED <<pc, candidates, passed, ncalls, nok, inserted, nsearch, err>>
    /\ AP_Idle
    /\ UNCHANGED decVars

\* lines 265-269: the candidate is good; the insertion returns or raises HttpError
AP_Add ==
    /\ AP_AtCandidate
    /\ ~is_existing(candidates[pos], existing)
    /\ checked + 1 <= MAX_CANDIDATES_TO_CHECK_add
    /\ GoodOf[candidates[pos]]
    /\ \E r \in InsertResponses(world, candidates[pos]) :
         /\ err' = r
         /\ nok' = IF r.raised THEN nok ELSE nok + 1
         /\ inserted' = IF r.raised THEN inserted ELSE inserted \cup {candidates[pos]}
         /\ pc' = IF r.raised THEN "raised" ELSE "added"
    /\ checked' = checked + 1
    /\ passed' = passed \cup {candidates[pos]}
    /\ ncalls' = ncalls + 1
    /\ UNCHANGED <<candidates, pos, nsearch>>
    /\ AP_Idle
    /\ UNCHANGED decVars

\* lines 258-259 and 271: the loop ends by break or exhaustion: no suitable video
AP_NoneFound ==
    /\ script = "add_to_playlist" /\ pc = "scan"
    /\ \/ pos > Len(candidates)
       \/ /\ pos <= Len(candidates)
          /\ ~is_existing(candidates[pos], existing)
          /\ checked + 1 > MAX_CANDIDATES_TO_CHECK_add
    /\ pc' = "done"
    /\ UNCHANGED <<candidates, pos, checked, passed, ncalls, nok, inserted, nsearch, err>>
    /\ AP_Idle
    /\ UNCHANGED decVars

(***************************************************************************)
(* The duration decoders on their own                                      *)
(***************************************************************************)
DecoderDigits == {"0", "3", "9"}

DigitStrings == UNION {[1..n -> DecoderDigits] : n \in 1..MaxDigits}

Component(unit) == {<<>>} \cup {d \o <<unit>> : d \in DigitStrings}

\* encodings of the form PT[#H][#M][#S]
GrammarEncodings ==
    {<<"P", "T">> \o h \o m \o s :
        h \in Component("H"), m \in Component("M"), s \in Component("S")}

\* arbitrary short strings, and encodings followed by a newline
JunkEncodings ==
    UNION {[1..n -> {"P", "T", "M", "S", "3", "\n"}] : n \in 0..MaxJunkLen}
      \cup {<<"P", "T">> \o m \o s \o <<"\n">> : m \in Component("M"), s \in Component("S")}

Encodings == GrammarEncodings \cup JunkEncodings

Dec_iso8601_to_seconds ==
    /\ script = "decoder" /\ dpc = "input"
    /\ dec_seconds' = Some(iso8601_to_seconds(dec_duration))
    /\ dpc' = "seconds"
    /\ UNCHANGED <<dec_duration, dec_minutes>>
    /\ UNCHANGED runVars

Dec_video_duration_minutes ==
    /\ script = "decoder" /\ dpc = "seconds"
    /\ dec_minutes' = duration_to_minutes(dec_duration)
    /\ dpc' = "done"
    /\ UNCHANGED <<dec_duration, dec_seconds>>
    /\ UNCHANGED runVars

(***************************************************************************)
(* Specifications                                                          *)
(***************************************************************************)
Scripts == {"run_playlist", "add_to_playlist"}

\* main after the membership set is fetched
Init ==
    /\ script \in Scripts
    /\ world \in WorldNames
    /\ pre \in World[world].playlists
    /\ existing = pre
    /\ pc = IF script = "run_playlist" THEN "loop" ELSE "start"
    /\ picked_this_run = {}
    /\ added = 0
    /\ attempts = 0
    /\ candidates = <<>>
    /\ pos = 1
    /\ checked = 0
    /\ passed = {}
    /\ ncalls = 0
    /\ nok = 0
    /\ inserted = {}
    /\ nsearch = 0
    /\ err = Returned
    /\ dec_duration = <<>>
    /\ dec_seconds = None
    /\ dec_minutes = None
    /\ dpc = "done"

Next ==
    \/ RP_NoPick
    \/ RP_Added
    \/ RP_SkipNotFound
    \/ RP_QuotaStop
    \/ RP_Raise
    \/ RP_Exit
    \/ AP_Search
    \/ AP_SkipExisting
    \/ AP_Reject
    \/ AP_Add
    \/ AP_NoneFound

Spec == Init /\ [][Next]_vars

\* a script runs to its end: the interpreter keeps executing main
FairSpec == Spec /\ WF_vars(Next)

DecInit ==
    /\ script = "decoder"
    /\ world = "barren"
    /\ pre = {}
    /\ existing = {}
    /\ pc = "done"
    /\ picked_this_run = {}
    /\ added = 0
    /\ attempts = 0
    /\ candidates = <<>>
    /\ pos = 1
    /\ checked = 0
    /\ passed = {}
    /\ ncalls = 0
    /\ nok = 0
    /\ inserted = {}
    /\ nsearch = 0
    /\ err = Returned
    /\ dec_duration \in Encodings
    /\ dec_seconds = None
    /\ dec_minutes = None
    /\ dpc = "input"

DecNext == Dec_iso8601_to_seconds \/ Dec_video_duration_minutes

DecSpec == DecInit /\ [][DecNext]_vars

(***************************************************************************)
(* Reference notions the properties are stated with.  They are written     *)
(* independently of the parsers above: the grammar by splitting the string *)
(* at two positions, numbers by positional weights.                        *)
(***************************************************************************)
IsComponent(seg, unit) ==
    \/ seg = <<>>
    \/ /\ Len(seg) >= 2
       /\ seg[Len(seg)] = unit
       /\ \A k \in 1..(Len(seg) - 1) : seg[k] \in Digits

GrammarSplits(str) ==
    {ab \in (2..Len(str)) \X (2..Len(str)) :
        /\ ab[1] <= ab[2]
        /\ IsComponent(SubSeq(str, 3, ab[1]), "H")
        /\ IsComponent(SubSeq(str, ab[1] + 1, ab[2]), "M")
        /\ IsComponent(SubSeq(str, ab[2] + 1, Len(str)), "S")}

\* str is PT followed by optional hours, minutes and seconds components, in that order
InGrammar(str) ==
    /\ Len(str) >= 2
    /\ str[1] = "P" /\ str[2] = "T"
    /\ GrammarSplits(str) # {}

\* the number a component stands for, 0 for an absent one
ComponentValue(seg) ==
    LET n == Len(seg) - 1
        sum[k \in 0..(IF n < 0 THEN 0 ELSE n)] ==
            IF k = 0 THEN 0 ELSE sum[k - 1] + DigitValue(seg[k]) * 10^(n - k)
    IN  IF seg = <<>> THEN 0 ELSE sum[n]

\* the duration in seconds an encoding of the grammar stands for
RefSeconds(str) ==
    LET ab == CHOOSE x \in GrammarSplits(str) : TRUE
    IN  ComponentValue(SubSeq(str, 3, ab[1])) * 3600
        + ComponentValue(SubSeq(str, ab[1] + 1, ab[2])) * 60
        + ComponentValue(SubSeq(str, ab[2] + 1, Len(str)))

\* the actual duration of each video of the catalogue, None when it has none
ActualSecondsOf ==
    [v \in Videos |->
        IF Video(v).hasDuration /\ InGrammar(Video(v).duration)
        THEN Some(RefSeconds(Video(v).duration)) ELSE None] @@ <<>>

Terminated == pc \in {"done", "added", "raised"}

NotFoundText(msg) == msg \cap {"videoNotFound", "Video not found"} # {}

QuotaText(msg) == msg \cap {"quotaExceeded", "Quota exceeded"} # {}

(***************************************************************************)
(* The properties.                                                         *)
(***************************************************************************)

\* C1: in both scripts, an identifier that was in the playlist when the run
\* began is never passed to the insertion operation.
C1_PreRunNeverInserted == passed \cap pre = {}

\* run_playlist has inserted two videos into a playlist that was not empty, from
\* results that also offered the playlist's own videos
C1_Witness ==
    /\ script = "run_playlist" /\ world = "mixed"
    /\ pre = {1, 4}
    /\ {2, 6} \subseteq passed

\* C2: in run_playlist every identifier whose insertion succeeded is in
\* `existing` before the next pick, and no identifier is passed to the
\* insertion operation twice in one run.
C2_NoDuplicateInRun ==
    script = "run_playlist" =>
        /\ inserted \subseteq existing
        /\ ncalls = Cardinality(passed)

\* videos were inserted and a later search offered nothing but inserted videos
C2_Witness ==
    /\ script = "run_playlist" /\ world = "rich"
    /\ ncalls >= 2
    /\ attempts > ncalls

C3_Bounded ==
    /\ attempts <= MAX_TOTAL_ATTEMPTS
    /\ script = "run_playlist" => nsearch <= MAX_TOTAL_ATTEMPTS
    /\ script = "add_to_playlist" =>
            /\ nsearch <= 1 /\ ncalls <= 1
            /\ checked <= MAX_CANDIDATES_TO_CHECK_add

C3_NothingQualified ==
    (script = "run_playlist" /\ Terminated /\ ncalls = 0) =>
        /\ pc = "done"
        /\ attempts = MAX_TOTAL_ATTEMPTS
        /\ added = 0 /\ existing = pre

\* C3: every run ends; run_playlist invokes the pick at most MAX_TOTAL_ATTEMPTS
\* times, and when no candidate ever qualifies it ends normally after exactly
\* MAX_TOTAL_ATTEMPTS attempts with nothing inserted; add_to_playlist searches
\* once, examines a bounded number of candidates and inserts at most once.
C3_Terminates ==
    /\ []C3_Bounded
    /\ []C3_NothingQualified
    /\ <>Terminated

\* run_playlist has ended normally after forty attempts none of which picked anything
C3_Witness ==
    /\ script = "run_playlist" /\ pc = "done"
    /\ ncalls = 0
    /\ attempts = MAX_TOTAL_ATTEMPTS

\* C4 as stated: an item whose actual duration is under 900 seconds is never
\* passed to the insertion operation, in either script.
C4_FloorInSeconds ==
    \A v \in passed :
        ~ActualSecondsOf[v].isNone => ActualSecondsOf[v].val >= MIN_DURATION_MINUTES * 60

\* C4: run_playlist compares the duration in minutes rounded half up, so its
\* floor in seconds is 870; add_to_playlist compares seconds, its floor is 900.
C4_FloorAsImplemented ==
    \A v \in passed :
        ~ActualSecondsOf[v].isNone =>
            ActualSecondsOf[v].val >=
                (IF script = "run_playlist"
                    THEN MIN_DURATION_MINUTES * 60 - 30
                    ELSE MIN_DURATION_MINUTES * 60)

\* run_playlist has passed the video of 14 minutes 30 seconds to the insertion
C4_Witness ==
    /\ script = "run_playlist"
    /\ 4 \in passed
    /\ ActualSecondsOf[4] = Some(870)

\* C5: a private item is never inserted by either script.
C5_PrivateNeverInserted ==
    \A v \in passed : Video(v).privacyStatus # "private"

NoOtherCall == nsearch' = nsearch /\ ncalls' = ncalls

C6_FailedInsertion ==
    (script = "run_playlist" /\ ncalls' = ncalls + 1 /\ err'.raised) =>
        /\ added' = added /\ nok' = nok
        /\ existing' = existing /\ inserted' = inserted
        /\ IF NotFoundText(err'.msg)
             THEN /\ pc' = "loop"
                  /\ (passed' \ passed) \subseteq picked_this_run'
           ELSE IF QuotaText(err'.msg)
             THEN pc' = "done"
           ELSE pc' = "raised"

C6_EndIsFinal == (script = "run_playlist" /\ Terminated) => NoOtherCall

\* C6: when the insertion fails in run_playlist, a "not found" failure marks
\* the item as handled and the loop goes on, a quota failure ends the run
\* normally, any other failure is raised and ends the run; in no case is
\* `added` incremented or `existing` extended, and an ended run calls nothing.
C6_InsertFailures == [][C6_FailedInsertion /\ C6_EndIsFinal]_vars

\* a missing video was skipped and a later insertion ran into the quota
C6_Witness ==
    /\ script = "run_playlist" /\ pc = "done"
    /\ err = HttpError({"Quota exceeded"})
    /\ 9 \in picked_this_run /\ 9 \notin existing
    /\ added >= 1

\* C7: every inserted item passed all five filters: duration at or above the
\* floor, not private, no banned title pattern, a preferred creator in the
\* title or the channel name, and not in the playlist when the run began.
C7_AllFiltersHold ==
    \A v \in passed :
        /\ ~ActualSecondsOf[v].isNone
        /\ ActualSecondsOf[v].val >= MIN_DURATION_MINUTES * 60 - 30
        /\ Video(v).privacyStatus # "private"
        /\ ~(IF script = "run_playlist" THEN is_bad_title(Video(v).title)
                                        ELSE title_is_bad(Video(v).title))
        /\ reciter_matches(Video(v).title, Video(v).channelTitle)
        /\ v \notin pre

\* C8: an encoding of the grammar decodes to hours*3600 + minutes*60 +
\* seconds; any other string gives an "unknown" result that differs from the
\* result for a duration of zero, and the item is then rejected.
C8_Decoder ==
    dpc = "done" =>
        IF InGrammar(dec_duration)
            THEN /\ dec_seconds = Some(RefSeconds(dec_duration))
                 /\ ~dec_minutes.isNone
            ELSE /\ dec_seconds # Some(iso8601_to_seconds(<<"P", "T", "0", "S">>))
                 /\ dec_minutes.isNone

\* C9: the minutes of a duration of T seconds are floor(T / 60), plus one when
\* T mod 60 is 30 or more, also when the seconds component is 60 or more.
C9_Rounding ==
    (dpc = "done" /\ InGrammar(dec_duration)) =>
        LET T == RefSeconds(dec_duration)
        IN  dec_minutes = Some((T \div 60) + (IF T % 60 >= 30 THEN 1 ELSE 0))

C10_Counters ==
    script = "run_playlist" =>
        /\ 0 <= added /\ added <= attempts /\ attempts <= MAX_TOTAL_ATTEMPTS
        /\ added <= VIDEOS_PER_RUN
        /\ added = nok
        /\ added = Cardinality(inserted)
        /\ existing = pre \cup inserted

C10_QuotaReached ==
    (script = "run_playlist" /\ added = VIDEOS_PER_RUN) => NoOtherCall

\* C10: in run_playlist 0 <= added <= attempts <= MAX_TOTAL_ATTEMPTS and
\* added <= VIDEOS_PER_RUN; added is the number of insertions that succeeded;
\* existing is the pre-run membership plus the inserted identifiers; and once
\* added = VIDEOS_PER_RUN there is no further search or insertion.
C10_LoopInvariant == []C10_Counters /\ [][C10_QuotaReached]_vars

\* the run has inserted its full quota and ended
C10_Witness ==
    /\ script = "run_playlist" /\ pc = "done"
    /\ added = VIDEOS_PER_RUN
    /\ Cardinality(inserted) = VIDEOS_PER_RUN

====
